---- MODULE Spec2Model ----
(***************************************************************************)
(* Model of instagram_downloader.py: the /download handler, its ordered    *)
(* fallback over three download strategies, and the shared downloads       *)
(* directory.  Text is modelled as sequences of one-character strings, a   *)
(* JSON document by the keys and value kinds the code inspects, a file by  *)
(* the sequence of chunks written to it.                                   *)
(***************************************************************************)
EXTENDS Integers, Sequences, FiniteSets, TLC

\* ------------------------------------------------------------------ bounds
MaxRequests == 2    \* requests handled in one behaviour
MaxChunks == 2      \* chunks a streamed video response can deliver
MaxBlocks == 2      \* ld+json script blocks found in one page

\* ------------------------------------------------------------ text helpers
instagram_com == <<"i","n","s","t","a","g","r","a","m",".","c","o","m">>
example_com == <<"e","x","a","m","p","l","e",".","c","o","m">>
Slash == <<"/">>
kw_p == <<"p">>
kw_reel == <<"r","e","e","l">>
kw_tv == <<"t","v">>
kw_reels == <<"r","e","e","l","s">>

\* the characters of \w that occur in the modelled URLs
WordChars ==
    {"a","c","e","g","h","i","l","m","n","o","p","r","s","t","u","v","w","x",
     "A","B","X","Y","1","9","_"}
\* [\w-] and [\w.]
WordDash == WordChars \cup {"-"}
WordDot == WordChars \cup {"."}

\* s has lit at position i
IsAt(lit, s, i) ==
    /\ i >= 1
    /\ i + Len(lit) - 1 <= Len(s)
    /\ \A k \in 1..Len(lit) : s[i + k - 1] = lit[k]

\* Python's   lit in s   for two strings
Contains(s, lit) == \E i \in 1..(Len(s) + 1) : IsAt(lit, s, i)

\* length of the longest run of characters of cls in s from position i
RECURSIVE RunLen(_, _, _)
RunLen(cls, s, i) ==
    IF i <= Len(s) /\ s[i] \in cls THEN 1 + RunLen(cls, s, i + 1) ELSE 0

Slice(s, i, n) == [k \in 1..n |-> s[i + k - 1]]

\* re.search found nothing (group 1 of a match is never empty: [\w-]+)
NoMatch == <<>>

\* (?:k1|k2|..)/([\w-]+) tried at position j: the group captured by the
\* first alternative that lets the rest match, NoMatch if none does
GroupAfterKeyword(kws, s, j) ==
    LET Ok(n) == /\ IsAt(kws[n] \o Slash, s, j)
                 /\ RunLen(WordDash, s, j + Len(kws[n]) + 1) >= 1
        hits == {n \in 1..Len(kws) : Ok(n)}
    IN  IF hits = {} THEN NoMatch
        ELSE LET n == CHOOSE m \in hits : \A o \in hits : m <= o
                 g == j + Len(kws[n]) + 1
             IN  Slice(s, g, RunLen(WordDash, s, g))

\* r'instagram\.com/(?:p|reel|tv|reels)/([\w-]+)' anchored at position i
Pattern1At(s, i) ==
    IF ~IsAt(instagram_com \o Slash, s, i) THEN NoMatch
    ELSE GroupAfterKeyword(<<kw_p, kw_reel, kw_tv, kw_reels>>, s,
                           i + Len(instagram_com) + 1)

\* r'instagram\.com/[\w.]+/(?:p|reel)/([\w-]+)' anchored at position i; the
\* greedy [\w.]+ gives characters back until the rest matches
Pattern2At(s, i) ==
    IF ~IsAt(instagram_com \o Slash, s, i) THEN NoMatch
    ELSE LET j == i + Len(instagram_com) + 1
             r == RunLen(WordDot, s, j)
             Rest(n) == IF IsAt(Slash, s, j + n)
                        THEN GroupAfterKeyword(<<kw_p, kw_reel>>, s, j + n + 1)
                        ELSE NoMatch
             lens == {n \in 1..r : Rest(n) # NoMatch}
         IN  IF lens = {} THEN NoMatch
             ELSE Rest(CHOOSE n \in lens : \A o \in lens : n >= o)

\* re.search(pattern, url) for the first pattern: the match at the leftmost
\* position that has one
Search1(s) ==
    LET starts == {i \in 1..Len(s) : Pattern1At(s, i) # NoMatch}
    IN  IF starts = {} THEN NoMatch
        ELSE Pattern1At(s, CHOOSE i \in starts : \A o \in starts : i <= o)

\* re.search(pattern, url) for the second pattern
Search2(s) ==
    LET starts == {i \in 1..Len(s) : Pattern2At(s, i) # NoMatch}
    IN  IF starts = {} THEN NoMatch
        ELSE Pattern2At(s, CHOOSE i \in starts : \A o \in starts : i <= o)

\* extract_instagram_shortcode: NoMatch stands for the None it returns
extract_instagram_shortcode(url) ==
    IF Search1(url) # NoMatch THEN Search1(url) ELSE Search2(url)

\* ---------------------------------------------------------- request inputs
id_A1 == <<"A","1">>
id_X_9 == <<"X","_","9">>
user == <<"u","s","e","r">>

\* the URL strings a request can carry
Urls ==
    { instagram_com \o Slash \o kw_p \o Slash \o id_A1 \o Slash,
      instagram_com \o Slash \o user \o Slash \o kw_tv \o Slash \o id_A1,
      instagram_com \o Slash \o user \o Slash,
      example_com \o Slash \o kw_p \o Slash \o id_A1 \o Slash,
      << >> }

\* what   await request.json()   can give: json = "invalid" is a body that is
\* not JSON, "list" a JSON array, "dict" a JSON object whose "url" key is
\* absent, null, a number, a one-element list, or a string
Bodies ==
    {[json |-> j, t |-> "absent", s |-> << >>] : j \in {"invalid", "list"}}
    \cup {[json |-> "dict", t |-> t, s |-> << >>] : t \in {"absent", "null", "int"}}
    \cup {[json |-> "dict", t |-> "str", s |-> u] : u \in Urls}
    \cup {[json |-> "dict", t |-> "list", s |-> u] : u \in {instagram_com, example_com}}

\* ---------------------------------------------------------------- values
\* Python's None, as a result and as a JSON null
None == [is_none |-> TRUE]
Null == "<null>"

\* dict.get(key, default)
Get(d, key, default) == IF key \in DOMAIN d THEN d[key] ELSE default

\* os.path.join(download_dir, f"{stem}.{ext}")
Path(stem, ext) == <<stem, ext>>

\* the downloads directory: a function from the paths that exist to the
\* chunks each file holds
EmptyDir == [p \in {} |-> << >>]
Exists(dir, p) == p \in DOMAIN dir
WriteFile(dir, p, data) ==
    [q \in DOMAIN dir \cup {p} |-> IF q = p THEN data ELSE dir[q]]

\* ------------------------------------------------------------- responses
JSONResponse(content, status_code) ==
    [content |-> content, status_code |-> status_code]
NoResponse == [pending |-> TRUE]

msg_no_url == "No URL provided"
msg_invalid == "Invalid Instagram URL"
msg_no_id == "Could not extract video ID from URL"
msg_unable == "Unable to download video."
msg_suggestion == "Make sure the Instagram post is public."
msg_internal == "Internal server error"

\* ----------------------------------------------- /download: validation
\* not url
Falsy(b) ==
    \/ b.t \in {"absent", "null"}
    \/ b.t = "str" /\ b.s = << >>

\* Validate without the check of lines 345-349
Validate_no_shortcode_check(b) ==
    IF b.json = "invalid" THEN [go |-> "raise"]
    ELSE IF b.json # "dict" THEN [go |-> "raise"]
    ELSE IF Falsy(b)
         THEN [go |-> "respond", msg |-> msg_no_url]
    ELSE IF b.t = "int" THEN [go |-> "raise"]
    ELSE IF (b.t = "str" /\ ~Contains(b.s, instagram_com))
            \/ (b.t = "list" /\ b.s # instagram_com)
         THEN [go |-> "respond", msg |-> msg_invalid]
    ELSE IF b.t # "str" THEN [go |-> "raise"]
    ELSE [go |-> "run", shortcode |-> extract_instagram_shortcode(b.s)]

\* lines 326-349: "raise" is an exception that reaches the outer except,
\* "respond" an early return, "run" goes on to the strategies
Validate(b) ==
    IF b.json = "invalid" THEN [go |-> "raise"]
    ELSE IF b.json # "dict" THEN [go |-> "raise"]
    ELSE IF Falsy(b)
         THEN [go |-> "respond", msg |-> msg_no_url]
    ELSE IF b.t = "int" THEN [go |-> "raise"]
    ELSE IF (b.t = "str" /\ ~Contains(b.s, instagram_com))
            \/ (b.t = "list" /\ b.s # instagram_com)
         THEN [go |-> "respond", msg |-> msg_invalid]
    ELSE IF b.t # "str" THEN [go |-> "raise"]
    ELSE IF extract_instagram_shortcode(b.s) = NoMatch
         THEN [go |-> "respond", msg |-> msg_no_id]
    ELSE [go |-> "run", shortcode |-> extract_instagram_shortcode(b.s)]

\* ------------------------------------------------- exceptions and returns
\* the exceptions the modelled calls raise; every one derives from Exception
ExceptionClasses ==
    {"ConnectionError", "Timeout", "ChunkedEncodingError", "JSONDecodeError",
     "KeyError", "TypeError", "AttributeError", "OSError", "DownloadError",
     "ExtractorError"}

\* an except clause that names the exceptions of requests only
Caught_requests_only(exc) ==
    exc \in {"ConnectionError", "Timeout", "ChunkedEncodingError"}

\* except Exception  (lines 138, 233, 294; line 134 names a subclass)
Caught(exc) == exc \in ExceptionClasses

\* what a piece of a strategy's try block does: ctl = "return" leaves the
\* function with value, "raise" raises exc, "continue" goes on with the next
\* loop iteration; dir is the directory afterwards, wrote the paths it
\* opened for writing, faults the failure that made it end this way
Step(ctl, value, exc, dir, wrote, faults) ==
    [ctl |-> ctl, value |-> value, exc |-> exc, dir |-> dir,
     wrote |-> wrote, faults |-> faults]

\* the try/except around a strategy's body and the final   return None
TryExcept(st) ==
    IF st.ctl = "raise" /\ Caught(st.exc)
    THEN Step("return", None, "", st.dir, st.wrote, st.faults)
    ELSE st

\* the failure a raised requests exception stands for
NetworkFault(exc) == IF exc = "Timeout" THEN {"timeout"} ELSE {"network"}

\* ------------------------------------------ streamed download to a file
\* the k-th chunk iter_content yields
Chunk(k) == k

\* for chunk in iter_content(): f.write(chunk), for n chunks
RECURSIVE WriteChunks(_, _, _)
\* the loop that leaves before the last chunk is written
WriteChunks_last_dropped(data, k, n) ==
    IF k >= n THEN data ELSE WriteChunks(Append(data, Chunk(k)), k + 1, n)

WriteChunks(data, k, n) ==
    IF k > n THEN data ELSE WriteChunks(Append(data, Chunk(k)), k + 1, n)

\* the file opened with 'ab' in place of 'wb': the chunks are written behind
\* what the file held
StreamToFile_append(dir, filepath, v) ==
    IF v.open_err
    THEN Step("raise", None, "OSError", dir, {}, {"write"})
    ELSE LET old == IF Exists(dir, filepath) THEN dir[filepath] ELSE << >>
             d == WriteFile(dir, filepath, WriteChunks(old, 1, v.n))
         IN  IF v.stream_err
             THEN Step("raise", None, "ChunkedEncodingError", d, {filepath},
                       {"network"})
             ELSE Step("continue", None, "", d, {filepath}, {})

\* with open(filepath, 'wb') as f: ... (lines 215-217, 277-279) for a
\* response v: open can fail, the stream can break after v.n chunks
StreamToFile(dir, filepath, v) ==
    IF v.open_err
    THEN Step("raise", None, "OSError", dir, {}, {"write"})
    ELSE LET d == WriteFile(dir, filepath, WriteChunks(<< >>, 1, v.n))
         IN  IF v.stream_err
             THEN Step("raise", None, "ChunkedEncodingError", d, {filepath},
                       {"network"})
             ELSE Step("continue", None, "", d, {filepath}, {})

\* requests.get(video_url, stream=True) answers
VideoResponses ==
    {[status |-> st, open_err |-> FALSE, n |-> 0, stream_err |-> FALSE] :
        st \in {"ConnectionError", "Timeout", "non200"}}
    \cup {[status |-> "ok", open_err |-> TRUE, n |-> 0, stream_err |-> FALSE]}
    \cup {[status |-> "ok", open_err |-> FALSE, n |-> n, stream_err |-> e] :
            n \in 0..MaxChunks, e \in BOOLEAN}
NoVideoResponse ==
    [status |-> "non200", open_err |-> FALSE, n |-> 0, stream_err |-> FALSE]
OneChunk ==
    [status |-> "ok", open_err |-> FALSE, n |-> 1, stream_err |-> FALSE]

\* ------------------------------------------------ strategy (a): yt-dlp
Absent == "<absent>"
StringValues == {Absent, Null, "", "text"}

\* what the engine's file holds
EngineData == <<Chunk(1)>>

Ids == {id_A1, id_X_9}

\* ydl.extract_info(url, download=True): it raises, returns None, or
\* returns an info dict; wrote says whether it wrote its output file
\* {shortcode}.{fext}; has_id/has_ext whether info has the keys 'id'/'ext'
EngineOutcomes ==
    {[engine |-> g, wrote |-> FALSE, fext |-> "mp4", has_id |-> FALSE,
      id |-> id_A1, has_ext |-> FALSE, title |-> Absent, uploader |-> Absent,
      description |-> Absent, thumbnail |-> Absent] :
        g \in {"DownloadError", "ExtractorError", "none"}}
    \cup {[engine |-> "info", wrote |-> w, fext |-> x, has_id |-> FALSE,
           id |-> id_A1, has_ext |-> he, title |-> "text", uploader |-> "text",
           description |-> "text", thumbnail |-> "text"] :
            w \in BOOLEAN, x \in {"mp4", "webm"}, he \in BOOLEAN}
    \cup {[engine |-> "info", wrote |-> w, fext |-> "mp4", has_id |-> TRUE,
           id |-> i, has_ext |-> TRUE, title |-> "text", uploader |-> "text",
           description |-> "text", thumbnail |-> "text"] :
            w \in BOOLEAN, i \in Ids}
    \cup {[engine |-> "info", wrote |-> TRUE, fext |-> "mp4", has_id |-> FALSE,
           id |-> id_A1, has_ext |-> TRUE, title |-> t, uploader |-> u,
           description |-> "text", thumbnail |-> t] :
            t \in {Absent, "text"}, u \in StringValues}
    \cup {[engine |-> "info", wrote |-> TRUE, fext |-> "mp4", has_id |-> FALSE,
           id |-> id_A1, has_ext |-> TRUE, title |-> "text", uploader |-> "text",
           description |-> d, thumbnail |-> "text"] :
            d \in StringValues}

\* info.get(key, default)
InfoGet(v, default) == IF v = Absent THEN default ELSE v

\* lines 114-132, the body of the try block
ytdlp_body(shortcode, dir, e) ==
    IF e.engine \in {"DownloadError", "ExtractorError"}
    THEN Step("raise", None, e.engine, dir, {}, {"engine"})
    ELSE IF e.engine = "none"
    THEN Step("raise", None, "AttributeError", dir, {}, {"shape"})
    ELSE
      LET out == Path(shortcode, e.fext)
          d == IF e.wrote THEN WriteFile(dir, out, EngineData) ELSE dir
          w == IF e.wrote THEN {out} ELSE {}
          video_id == IF e.has_id THEN e.id ELSE shortcode
          ext == IF e.has_ext THEN e.fext ELSE "mp4"
          filepath == Path(video_id, ext)
      IN  IF Exists(d, filepath)
          THEN Step("return",
                    [success |-> TRUE,
                     filepath |-> filepath,
                     filename |-> filepath,
                     title |-> InfoGet(e.title, "Instagram Video"),
                     author |-> InfoGet(e.uploader, "Unknown"),
                     caption |-> InfoGet(e.description, "No caption available"),
                     thumbnail |-> InfoGet(e.thumbnail, ""),
                     method |-> "ytdlp_enhanced"],
                    "", d, w, {})
          ELSE Step("return", None, "", d, w, {"nofile"})

download_with_ytdlp_enhanced(shortcode, dir, e) ==
    TryExcept(ytdlp_body(shortcode, dir, e))

\* ------------------------------------------- strategy (b): direct API
api_urls == <<"p", "reel">>

\* x or default
Or(x, default) == IF x \in {"", Null} THEN default ELSE x

\* what one API endpoint answers.  status: the metadata request; body: the
\* JSON it carries ("scalar" a JSON number, "other" an object with neither
\* 'items' nor 'graphql'); video, cap, owner: the keys of the media object;
\* v: the answer to the video request
EndpointResponse(status, body, video, cap, owner, v) ==
    [status |-> status, body |-> body, video |-> video, cap |-> cap,
     owner |-> owner, v |-> v]

CaptionShapes ==
    {"absent", "null", "string", "notext", "nulltext", "emptytext", "text",
     "edges_empty", "edges_text"}
OwnerShapes == {"absent", "null", "nouser", "nulluser", "emptyuser", "name"}

EndpointResponses ==
    {EndpointResponse(st, "other", "none", "text", "name", NoVideoResponse) :
        st \in {"ConnectionError", "Timeout", "non200"}}
    \cup {EndpointResponse("ok", b, "none", "text", "name", NoVideoResponse) :
            b \in {"badjson", "scalar", "other", "graphql_nomedia"}}
    \cup {EndpointResponse("ok", b, vd, "text", "name", NoVideoResponse) :
            b \in {"items", "graphql"},
            vd \in {"none", "video_url_null", "versions_nourl"}}
    \cup {EndpointResponse("ok", b, vd, "text", "name", v) :
            b \in {"items", "graphql"}, vd \in {"video_url", "versions"},
            v \in VideoResponses}
    \cup {EndpointResponse("ok", "items", "video_url", c, "name", OneChunk) :
            c \in CaptionShapes}
    \cup {EndpointResponse("ok", "items", "video_url", "text", o, OneChunk) :
            o \in OwnerShapes}

\* lines 198-204: the caption before   caption or '...'
MediaCaption(cap) ==
    CASE cap = "text" -> "text"
      [] cap = "nulltext" -> Null
      [] cap = "edges_text" -> "text"
      [] OTHER -> ""

\* line 207
MediaAuthor(owner) ==
    CASE owner \in {"absent", "nouser"} -> "Unknown"
      [] owner = "nulluser" -> Null
      [] owner = "emptyuser" -> ""
      [] OTHER -> "text"

\* lines 220-228
requests_result(shortcode, caption, author) ==
    [success |-> TRUE,
     filepath |-> Path(shortcode, "mp4"),
     filename |-> Path(shortcode, "mp4"),
     title |-> "Instagram Video - shortcode",
     author |-> author,
     caption |-> Or(caption, "No caption available"),
     method |-> "direct_api"]

\* lines 175-231: one iteration of   for api_url in api_urls
requests_endpoint(shortcode, dir, e) ==
    IF e.status \in {"ConnectionError", "Timeout"}
    THEN Step("raise", None, e.status, dir, {}, NetworkFault(e.status))
    ELSE IF e.status # "ok"
    THEN Step("continue", None, "", dir, {}, {"non200"})
    ELSE IF e.body = "badjson"
    THEN Step("continue", None, "", dir, {}, {"json"})
    ELSE IF e.body = "scalar"
    THEN Step("raise", None, "TypeError", dir, {}, {"shape"})
    ELSE IF e.body = "graphql_nomedia"
    THEN Step("raise", None, "KeyError", dir, {}, {"shape"})
    ELSE IF e.body \notin {"items", "graphql"}
    THEN Step("continue", None, "", dir, {}, {"shape"})
    ELSE IF e.video = "versions_nourl"
    THEN Step("raise", None, "KeyError", dir, {}, {"shape"})
    ELSE IF e.video \notin {"video_url", "versions"}
    THEN Step("continue", None, "", dir, {}, {"shape"})
    ELSE IF e.cap = "string" \/ e.owner = "null"
    THEN Step("raise", None, "AttributeError", dir, {}, {"shape"})
    ELSE IF e.v.status \in {"ConnectionError", "Timeout"}
    THEN Step("raise", None, e.v.status, dir, {}, NetworkFault(e.v.status))
    ELSE IF e.v.status # "ok"
    THEN Step("continue", None, "", dir, {}, {"non200"})
    ELSE
      LET w == StreamToFile(dir, Path(shortcode, "mp4"), e.v)
      IN  IF w.ctl = "raise" THEN w
          ELSE Step("return",
                    requests_result(shortcode, MediaCaption(e.cap),
                                    MediaAuthor(e.owner)),
                    "", w.dir, w.wrote, {})

\* ------------------------------------------ strategy (c): HTML scraping
\* requests.get(post_url): the page and the number of ld+json blocks in it
PageResponses ==
    {[status |-> st, blocks |-> 0] : st \in {"ConnectionError", "Timeout", "non200"}}
    \cup {[status |-> "ok", blocks |-> n] : n \in 0..MaxBlocks}

\* one ld+json block.  parse: whether json.loads accepts it; video: the
\* 'video' key; caption: the 'caption' key; author: the 'author' key
\* ("string" a JSON string, the name shapes an object); v: the answer to
\* the video request
Block(parse, video, caption, author, v) ==
    [parse |-> parse, video |-> video, caption |-> caption,
     author |-> author, v |-> v]

AuthorShapes ==
    {"absent", "null", "string", "noname", "nullname", "emptyname", "name"}

Blocks ==
    {Block("badjson", "absent", "text", "name", NoVideoResponse)}
    \cup {Block("ok", vd, "text", "name", NoVideoResponse) :
            vd \in {"absent", "notdict", "nourl"}}
    \cup {Block("ok", "url", "text", "name", v) : v \in VideoResponses}
    \cup {Block("ok", "url", c, "name", OneChunk) : c \in StringValues}
    \cup {Block("ok", "url", "text", a, OneChunk) : a \in AuthorShapes}

\* data.get('author', {}).get('name', 'Unknown')
BlockAuthor(author) ==
    CASE author \in {"absent", "noname"} -> "Unknown"
      [] author = "nullname" -> Null
      [] author = "emptyname" -> ""
      [] OTHER -> "text"

\* lines 282-290
scraping_result(shortcode, b) ==
    [success |-> TRUE,
     filepath |-> Path(shortcode, "mp4"),
     filename |-> Path(shortcode, "mp4"),
     title |-> InfoGet(b.caption, "Instagram Video"),
     author |-> BlockAuthor(b.author),
     caption |-> InfoGet(b.caption, "No caption available"),
     method |-> "html_scraping"]

\* lines 256-263: the page request
scraping_fetch(dir, pg) ==
    IF pg.status \in {"ConnectionError", "Timeout"}
    THEN Step("raise", None, pg.status, dir, {}, NetworkFault(pg.status))
    ELSE IF pg.status # "ok"
    THEN Step("return", None, "", dir, {}, {"non200"})
    ELSE Step("continue", None, "", dir, {}, {})

\* lines 266-292: one iteration of   for match in matches
scraping_block(shortcode, dir, b) ==
    IF b.parse = "badjson"
    THEN Step("continue", None, "", dir, {}, {"json"})
    ELSE IF b.video # "url"
    THEN Step("continue", None, "", dir, {}, {"shape"})
    ELSE IF b.v.status \in {"ConnectionError", "Timeout"}
    THEN Step("raise", None, b.v.status, dir, {}, NetworkFault(b.v.status))
    ELSE IF b.v.status # "ok"
    THEN Step("continue", None, "", dir, {}, {"non200"})
    ELSE
      LET w == StreamToFile(dir, Path(shortcode, "mp4"), b.v)
      IN  IF w.ctl = "raise" THEN w
          ELSE IF b.author \in {"null", "string"}
          THEN Step("raise", None, "AttributeError", w.dir, w.wrote, {"shape"})
          ELSE Step("return", scraping_result(shortcode, b), "",
                    w.dir, w.wrote, {})

\* ------------------------------------------------------------------ state
VARIABLES
    pc,         \* "idle": no request in the handler; "loop": in the for
                \* loop over methods; "respond": after the loop
    nreq,       \* requests received so far
    reqClass,   \* what kind of body the current request carried
    url,        \* the URL string of the current request, << >> if it
                \* carried none
    shortcode,  \* the current request's shortcode
    idx,        \* index in methods of the current method
    pos,        \* iterations done inside the current strategy call
    nblocks,    \* ld+json blocks of the page strategy (c) fetched
    result,     \* the handler's local   result
    calls,      \* the methods the current request has invoked, in order
    outs,       \* how each of those calls ended
    lastRet,    \* the latest strategy return of the current request, with
                \* the failure that ended the call and the files it wrote
    files,      \* the downloads directory
    leftover,   \* the files of the directory whose latest writer was a
                \* strategy call that returned no result
    response    \* the response to the latest request

vars ==
    <<pc, nreq, reqClass, url, shortcode, idx, pos, nblocks, result, calls,
      outs, lastRet, files, leftover, response>>

\* methods with the first two entries swapped
methods_swapped == <<"Direct API", "Enhanced yt-dlp", "HTML Scraping">>

\* lines 354-358
methods == <<"Enhanced yt-dlp", "Direct API", "HTML Scraping">>

NoReturn == [pending |-> TRUE]

\* how the claims classify a request body
RequestClass(b) ==
    CASE b.json # "dict" -> "malformed"
      [] b.json = "dict" /\ b.t \in {"absent", "null"} -> "missing"
      [] b.json = "dict" /\ b.t \in {"int", "list"} -> "nonstring"
      [] b.json = "dict" /\ b.t = "str" /\ b.s = << >> -> "missing"
      [] b.json = "dict" /\ b.t = "str" /\ b.s # << >>
            /\ ~Contains(b.s, instagram_com) -> "nodomain"
      [] b.json = "dict" /\ b.t = "str" /\ Contains(b.s, instagram_com)
            /\ extract_instagram_shortcode(b.s) = NoMatch -> "noshortcode"
      [] OTHER -> "ok"

\* Validate and RequestClass of every body, computed once
Validated == [b \in Bodies |-> Validate(b)]
RequestClasses == [b \in Bodies |-> RequestClass(b)]

Init ==
    /\ pc = "idle"
    /\ nreq = 0
    /\ reqClass = "none"
    /\ url = << >>
    /\ shortcode = NoMatch
    /\ idx = 1
    /\ pos = 0
    /\ nblocks = 0
    /\ result = None
    /\ calls = << >>
    /\ outs = << >>
    /\ lastRet = NoReturn
    /\ files = EmptyDir
    /\ leftover = {}
    /\ response = NoResponse

\* the handler without the outer except: the exception leaves it and no
\* response is built
InternalError_escapes == NoResponse

\* lines 395-400
InternalError == JSONResponse([error |-> msg_internal], 500)

\* lines 325-358: the handler up to the for loop
Download_Start(b) ==
    /\ pc = "idle"
    /\ nreq < MaxRequests
    /\ nreq' = nreq + 1
    /\ reqClass' = RequestClasses[b]
    /\ url' = IF b.json = "dict" /\ b.t = "str" THEN b.s ELSE << >>
    /\ LET v == Validated[b]
       IN  /\ pc' = IF v.go = "run" THEN "loop" ELSE "idle"
           /\ shortcode' = IF v.go = "run" THEN v.shortcode ELSE NoMatch
           /\ response' = CASE v.go = "run" -> NoResponse
                            [] v.go = "respond" ->
                                 JSONResponse([error |-> v.msg], 400)
                            [] OTHER -> InternalError
    /\ idx' = 1
    /\ pos' = 0
    /\ nblocks' = 0
    /\ result' = None
    /\ calls' = << >>
    /\ outs' = << >>
    /\ lastRet' = NoReturn
    /\ UNCHANGED <<files, leftover>>

\* how a call of a method ends, as the handler sees it
Raised == [kind |-> "raised", value |-> None]
Returned(value) == [kind |-> "value", value |-> value]
OutKind(out) ==
    IF out.kind = "raised" THEN "raised"
    ELSE IF out.value = None THEN "none"
    ELSE IF Get(out.value, "success", FALSE) = TRUE THEN "success"
    ELSE "nosuccess"

\* loop_step without the break of line 367
loop_step_no_break(res, i, out) ==
    [result |-> IF out.kind = "raised" THEN res ELSE out.value,
     idx |-> IF i = Len(methods) THEN i ELSE i + 1,
     pc |-> IF i = Len(methods) THEN "respond" ELSE "loop"]

\* loop_step without the try/except of lines 363 and 368-370
loop_step_no_except(res, i, out) ==
    LET r == IF out.kind = "raised" THEN res ELSE out.value
        brk == /\ out.kind # "raised"
               /\ r # None
               /\ Get(r, "success", FALSE) = TRUE
    IN  [result |-> r,
         idx |-> IF brk \/ i = Len(methods) THEN i ELSE i + 1,
         pc |-> IF out.kind = "raised" THEN "raise"
                ELSE IF brk \/ i = Len(methods) THEN "respond" ELSE "loop"]

\* lines 363-370: one iteration of   for method_name, method_func in methods
\* given how the call ended: the new result, and where control goes
loop_step(res, i, out) ==
    LET r == IF out.kind = "raised" THEN res ELSE out.value
        brk == /\ out.kind # "raised"
               /\ r # None
               /\ Get(r, "success", FALSE) = TRUE
    IN  [result |-> r,
         idx |-> IF brk \/ i = Len(methods) THEN i ELSE i + 1,
         pc |-> IF brk \/ i = Len(methods) THEN "respond" ELSE "loop"]

\* the current strategy call ends as st says: line 364 and the rest of the
\* loop iteration; received is the number of chunks the stream it wrote to
\* its file delivered, over what the file it opened for writing held before
\* and whether a call that returned no result had left it
MethodEnds(st, received) ==
    LET out == IF st.ctl = "raise" THEN Raised ELSE Returned(st.value)
        o == loop_step(result, idx, out)
    IN  /\ result' = o.result
        /\ idx' = o.idx
        /\ pc' = o.pc
        /\ pos' = 0
        /\ nblocks' = 0
        /\ outs' = Append(outs, OutKind(out))
        /\ lastRet' = [method |-> methods[idx], out |-> out,
                       faults |-> st.faults, wrote |-> st.wrote,
                       shortcode |-> shortcode, pos |-> pos,
                       nblocks |-> nblocks,
                       received |-> IF st.wrote = {} THEN 0 ELSE received,
                       over |->
                         IF st.wrote \cap DOMAIN files = {} THEN None
                         ELSE LET p == CHOOSE q \in st.wrote \cap DOMAIN files :
                                           TRUE
                              IN  [data |-> files[p], left |-> p \in leftover]]
        /\ files' = st.dir
        /\ leftover' = IF OutKind(out) = "success"
                       THEN leftover \ st.wrote
                       ELSE leftover \cup st.wrote

\* the current strategy call goes on with its next loop iteration
MethodContinues(st) ==
    /\ pos' = pos + 1
    /\ files' = st.dir
    /\ UNCHANGED <<pc, idx, result, outs, lastRet, leftover>>

\* the loop a strategy runs is exhausted after this iteration: return None
Exhausted(st, last) ==
    IF st.ctl = "continue" /\ last
    THEN Step("return", None, "", st.dir, st.wrote, st.faults)
    ELSE st

Invoke == calls' = IF pos = 0 THEN Append(calls, methods[idx]) ELSE calls

\* line 364 when the call itself raises before the strategy's try block is
\* entered (RecursionError or MemoryError on entry)
Call_Raises ==
    /\ pc = "loop"
    /\ pos = 0
    /\ Invoke
    /\ MethodEnds(Step("raise", None, "MemoryError", files, {}, {}), 0)
    /\ UNCHANGED <<nreq, reqClass, url, shortcode, response>>

\* lines 72-141
Ytdlp(e) ==
    /\ pc = "loop"
    /\ methods[idx] = "Enhanced yt-dlp"
    /\ Invoke
    /\ MethodEnds(download_with_ytdlp_enhanced(shortcode, files, e), 0)
    /\ UNCHANGED <<nreq, reqClass, url, shortcode, response>>

\* lines 143-236: download_with_requests, one endpoint at a time
Requests_Endpoint(e) ==
    /\ pc = "loop"
    /\ methods[idx] = "Direct API"
    /\ Invoke
    /\ LET st == TryExcept(Exhausted(requests_endpoint(shortcode, files, e),
                                     pos + 1 = Len(api_urls)))
       IN  IF st.ctl = "continue" THEN MethodContinues(st) /\ UNCHANGED nblocks
           ELSE MethodEnds(st, e.v.n)
    /\ UNCHANGED <<nreq, reqClass, url, shortcode, response>>

\* lines 238-263: download_with_instaloader_like up to the scan of the page
Scraping_Fetch(pg) ==
    /\ pc = "loop"
    /\ methods[idx] = "HTML Scraping"
    /\ pos = 0
    /\ Invoke
    /\ LET st == TryExcept(Exhausted(scraping_fetch(files, pg), pg.blocks = 0))
       IN  IF st.ctl = "continue"
           THEN MethodContinues(st) /\ nblocks' = pg.blocks
           ELSE MethodEnds(st, 0)
    /\ UNCHANGED <<nreq, reqClass, url, shortcode, response>>

\* lines 265-297: one ld+json block
Scraping_Block(b) ==
    /\ pc = "loop"
    /\ methods[idx] = "HTML Scraping"
    /\ pos >= 1
    /\ Invoke
    /\ LET st == TryExcept(Exhausted(scraping_block(shortcode, files, b),
                                     pos = nblocks))
       IN  IF st.ctl = "continue" THEN MethodContinues(st) /\ UNCHANGED nblocks
           ELSE MethodEnds(st, b.v.n)
    /\ UNCHANGED <<nreq, reqClass, url, shortcode, response>>

\* respond with line 372 testing nothing: the success shape is built from
\* whatever result holds
respond_unchecked(res, dir) ==
    IF res = None
    THEN JSONResponse(
           [success |-> TRUE, video |-> "", title |-> "Instagram Video",
            author |-> "Unknown", thumbnail |-> "", filename |-> "",
            caption |-> "No caption available", file_size |-> 0,
            method |-> "unknown"],
           200)
    ELSE IF ~Exists(dir, res.filepath) THEN InternalError
    ELSE JSONResponse(
           [success |-> TRUE,
            video |-> res.filename,
            title |-> Get(res, "title", "Instagram Video"),
            author |-> Get(res, "author", "Unknown"),
            thumbnail |-> Get(res, "thumbnail", ""),
            filename |-> res.filename,
            caption |-> Get(res, "caption", "No caption available"),
            file_size |-> Len(dir[res.filepath]),
            method |-> Get(res, "method", "unknown")],
           200)

\* lines 372-393
respond(res, dir) ==
    IF res # None /\ Get(res, "success", FALSE) = TRUE
    THEN IF ~Exists(dir, res.filepath) THEN InternalError
         ELSE JSONResponse(
                [success |-> TRUE,
                 video |-> res.filename,
                 title |-> Get(res, "title", "Instagram Video"),
                 author |-> Get(res, "author", "Unknown"),
                 thumbnail |-> Get(res, "thumbnail", ""),
                 filename |-> res.filename,
                 caption |-> Get(res, "caption", "No caption available"),
                 file_size |-> Len(dir[res.filepath]),
                 method |-> Get(res, "method", "unknown")],
                200)
    ELSE JSONResponse([error |-> msg_unable, suggestion |-> msg_suggestion], 400)

\* lines 372-400: an exception that leaves the try block of lines 325-393
\* is answered by the outer except
Download_Respond ==
    /\ pc \in {"respond", "raise"}
    /\ response' = IF pc = "raise" THEN InternalError
                   ELSE respond(result, files)
    /\ pc' = "idle"
    /\ UNCHANGED <<nreq, reqClass, url, shortcode, idx, pos, nblocks, result,
                   calls, outs, lastRet, files, leftover>>

Next ==
    \/ \E b \in Bodies : Download_Start(b)
    \/ Call_Raises
    \/ \E e \in EngineOutcomes : Ytdlp(e)
    \/ \E e \in EndpointResponses : Requests_Endpoint(e)
    \/ \E pg \in PageResponses : Scraping_Fetch(pg)
    \/ \E b \in Blocks : Scraping_Block(b)
    \/ Download_Respond

Spec == Init /\ [][Next]_vars

\* a step of the handler of the request in progress: the handler runs its
\* strategies one after the other, every network call has a timeout (lines
\* 175, 210, 256, 272), so a request in progress always takes its next step
Progress ==
    \/ Call_Raises
    \/ \E e \in EngineOutcomes : Ytdlp(e)
    \/ \E e \in EndpointResponses : Requests_Endpoint(e)
    \/ \E pg \in PageResponses : Scraping_Fetch(pg)
    \/ \E b \in Blocks : Scraping_Block(b)
    \/ Download_Respond

\* where the handler is in its code
position == <<pc, idx, pos>>

\* the handler of the request in progress moves on: under Next the steps
\* that change position while a request is in progress are those of
\* Progress, and every step of Progress changes it
Advance ==
    /\ pc # "idle"
    /\ \E q \in {"idle", "loop", "respond", "raise"},
          i \in 1..Len(methods), k \in 0..(MaxBlocks + 1) :
            pc' = q /\ idx' = i /\ pos' = k

\* a request in progress does not stand still
FairSpec == Spec /\ WF_position(Advance)

\* ------------------------------ extract_instagram_shortcode on its own
https == <<"h","t","t","p","s",":","/","/">>
www == <<"w","w","w",".">>
id_A_B == <<"A","-","B">>
dotted_user == <<"u",".","s">>
explore == <<"e","x","p","l","o","r","e">>
query == <<"?","x">>
NoPart == << >>

\* the path segments the patterns of lines 62-63 are about
PostKeywords == {kw_p, kw_reel, kw_tv, kw_reels}

\* the URLs the function is applied to, by their parts: a scheme, an optional
\* username segment, an optional segment kw followed by an identifier, and
\* what follows the path
UrlParts ==
    [scheme : {NoPart, https, https \o www},
     username : {NoPart, user, dotted_user},
     kw : PostKeywords \cup {explore},
     id : {id_A1, id_X_9, id_A_B},
     tail : {NoPart, Slash, Slash \o query}]
    \cup [scheme : {NoPart, https, https \o www},
          username : {NoPart, user, dotted_user},
          kw : {NoPart}, id : {NoPart},
          tail : {NoPart, Slash \o query}]

BuildUrl(p) ==
    p.scheme \o instagram_com \o Slash
    \o (IF p.username = NoPart THEN NoPart ELSE p.username \o Slash)
    \o (IF p.kw = NoPart THEN NoPart ELSE p.kw \o Slash \o p.id)
    \o p.tail

\* the function's value on every URL, computed once
Extracted ==
    [p \in UrlParts |-> extract_instagram_shortcode(BuildUrl(p))]

\* lines 59-70 applied once to the URL built from p
Extract(p) ==
    /\ url = << >>
    /\ url' = BuildUrl(p)
    /\ shortcode' = Extracted[p]
    /\ UNCHANGED <<pc, nreq, reqClass, idx, pos, nblocks, result, calls,
                   outs, lastRet, files, leftover, response>>

ExtractNext == \E p \in UrlParts : Extract(p)

ExtractSpec == Init /\ [][ExtractNext]_vars

\* ------------------------------------------------------------- properties
\* the strategies in the order the specification gives them
StrategyOrder == <<"Enhanced yt-dlp", "Direct API", "HTML Scraping">>

\* the tag each strategy puts in its results
StrategyTag(m) ==
    CASE m = "Enhanced yt-dlp" -> "ytdlp_enhanced"
      [] m = "Direct API" -> "direct_api"
      [] OTHER -> "html_scraping"

\* the current request has been answered
Answered == pc = "idle" /\ response # NoResponse

SuccessShape(r) == "success" \in DOMAIN r.content
FailureShape(r) ==
    /\ DOMAIN r.content = {"error", "suggestion"}
    /\ r.content.error = msg_unable

\* the latest strategy call returned a success result
ReturnedSuccess ==
    /\ lastRet # NoReturn
    /\ OutKind(lastRet.out) = "success"

\* C1: once a strategy of a request has returned a success result, no later
\* strategy is invoked for that request; in particular after a success of
\* the first strategy the other two are never called.
C1_StopAtFirstSuccess ==
    \A i \in 1..Len(outs) : outs[i] = "success" => Len(calls) = i

C1_Witness ==
    /\ Answered
    /\ outs = <<"success">>
    /\ calls = <<"Enhanced yt-dlp">>

\* C2: the tag of a success response is the tag of the earliest strategy, in
\* the order a, b, c, that returned success, whatever the other strategies
\* did; when (a) raises and (b) succeeds the response is the success shape
\* tagged direct_api; and no exception of a strategy call escapes the loop as
\* an internal-error response.
C2_TagOfEarliestSuccess ==
    Answered /\ Len(calls) >= 1 =>
        /\ response.status_code # 500
        /\ \A i \in 1..Len(outs) :
             (outs[i] = "success" /\ \A j \in 1..(i - 1) : outs[j] # "success")
                => /\ SuccessShape(response)
                   /\ response.content.method = StrategyTag(StrategyOrder[i])
        /\ SuccessShape(response) => \E i \in 1..Len(outs) : outs[i] = "success"

C2_Witness ==
    /\ Answered
    /\ outs = <<"raised", "success">>
    /\ SuccessShape(response)
    /\ response.content.method = "direct_api"

\* C3: when all three strategies end without a result (None or an exception)
\* the response is the generic failure shape, an error and a suggestion and
\* no strategy tag; a success shape is sent only when some strategy returned
\* a result with success = true.
C3_Exhaustion ==
    Answered /\ Len(calls) >= 1 =>
        /\ (\A i \in 1..Len(outs) : outs[i] \in {"none", "raised"})
              => /\ Len(outs) = Len(StrategyOrder)
                 /\ FailureShape(response)
                 /\ response.status_code = 400
                 /\ "method" \notin DOMAIN response.content
        /\ SuccessShape(response)
              => /\ outs[Len(outs)] = "success"
                 /\ result.success = TRUE

C3_Witness ==
    /\ Answered
    /\ outs = <<"none", "raised", "none">>
    /\ FailureShape(response)

\* C4: within a request the strategies are invoked in the order a, b, c, one
\* at a time and each at most once: a strategy starts only after all earlier
\* ones have finished without success.
C4_OrderedOnce ==
    /\ Len(calls) <= Len(StrategyOrder)
    /\ \A i \in 1..Len(calls) : calls[i] = StrategyOrder[i]
    /\ Len(outs) \in {Len(calls), Len(calls) - 1}
    /\ \A i \in 2..Len(calls) : outs[i - 1] \in {"none", "raised"}
    /\ pos > 0 => Len(outs) = Len(calls) - 1

C4_Witness ==
    /\ calls = StrategyOrder
    /\ Len(outs) = 2
    /\ pos > 0

\* C5: a request whose URL is missing or empty, is a string without the
\* domain, or is a string from which no shortcode can be extracted, is
\* answered at once with status 400 and the message of its case; no strategy
\* is invoked and no file is written for it.
C5_Message(c) ==
    CASE c = "missing" -> msg_no_url
      [] c = "nodomain" -> msg_invalid
      [] OTHER -> msg_no_id

C5_Answer ==
    reqClass \in {"missing", "nodomain", "noshortcode"} =>
        /\ pc = "idle"
        /\ response = JSONResponse([error |-> C5_Message(reqClass)], 400)
        /\ calls = << >>
        /\ lastRet = NoReturn

C5_ValidationFailsFast ==
    /\ []C5_Answer
    /\ [][reqClass' \in {"missing", "nodomain", "noshortcode"}
            => files' = files]_vars

C5_Witness ==
    /\ reqClass = "noshortcode"
    /\ response = JSONResponse([error |-> msg_no_id], 400)
    /\ files # EmptyDir

\* C6: whenever a strategy returns a success result, the file at its filepath
\* exists and is not empty.
C6_SuccessFileNonEmpty ==
    ReturnedSuccess =>
        /\ Exists(files, lastRet.out.value.filepath)
        /\ files[lastRet.out.value.filepath] # << >>

\* the failures a strategy can meet: a network error, a timeout, a response
\* other than 200, a JSON parse failure, an unexpected payload shape, an
\* engine exception, a missing output file, a file write error
InternalFailures ==
    {"network", "timeout", "non200", "json", "shape", "engine", "nofile",
     "write"}

\* C7: a failure inside a strategy never leaves it as an exception: a call
\* ended by a failure returns None, and a call that returns without success
\* returns None.
C7_FailuresSwallowed ==
    lastRet # NoReturn =>
        /\ lastRet.faults \subseteq InternalFailures
        /\ lastRet.faults # {} => lastRet.out = Returned(None)
        /\ OutKind(lastRet.out) \in {"success", "none", "raised"}
        /\ OutKind(lastRet.out) = "raised" => lastRet.faults = {}

C7_Witness ==
    /\ lastRet # NoReturn
    /\ lastRet.method = "Direct API"
    /\ lastRet.faults = {"shape"}
    /\ lastRet.out = Returned(None)

\* C8: a success result never carries a null or empty caption or author.
C8_DefaultsApplied ==
    ReturnedSuccess =>
        /\ lastRet.out.value.caption \notin {Null, ""}
        /\ lastRet.out.value.author \notin {Null, ""}

\* C9: every success result has the fields success, filepath, filename,
\* title, author, caption, thumbnail and method, and its method is the tag of
\* the strategy that returned it.
C9_SameFieldSet ==
    ReturnedSuccess =>
        /\ DOMAIN lastRet.out.value =
              {"success", "filepath", "filename", "title", "author",
               "caption", "thumbnail", "method"}
        /\ lastRet.out.value.method = StrategyTag(lastRet.method)

\* C10: a strategy that returns success wrote no file but the one its result
\* names, that file exists and carries the request's shortcode for
\* strategies (b) and (c), and strategy (a) returns success only if the file
\* the engine was told to write, {shortcode}.{ext}, exists.
C10_OneFileNamed ==
    ReturnedSuccess =>
        /\ lastRet.wrote \subseteq {lastRet.out.value.filepath}
        /\ Exists(files, lastRet.out.value.filepath)
        /\ lastRet.method # "Enhanced yt-dlp"
              => lastRet.out.value.filepath = Path(lastRet.shortcode, "mp4")
        /\ lastRet.method = "Enhanced yt-dlp"
              => Exists(files, Path(lastRet.shortcode,
                                    lastRet.out.value.filepath[2]))

\* what kind of response r is
ResponseKind(r) ==
    CASE r = NoResponse -> "none"
      [] r = InternalError -> "internal"
      [] r # NoResponse /\ r # InternalError /\ SuccessShape(r)
            /\ r.status_code = 200 -> "success"
      [] r # NoResponse /\ r # InternalError /\ FailureShape(r)
            /\ r.status_code = 400 -> "exhaustion"
      [] r # NoResponse /\ r # InternalError /\ r.status_code = 400
            /\ DOMAIN r.content = {"error"}
            /\ r.content.error \in {msg_no_url, msg_invalid, msg_no_id}
            -> "validation"
      [] OTHER -> "unknown"

\* a request in progress has no response yet and a step to take; a request
\* that has left the handler has its response, of one of the four
\* kinds; a body that is not a JSON object gets the internal error, a URL
\* that is not a string the internal error or a validation failure, and a
\* request that reached the strategies never a validation failure
C11_Answer ==
    /\ pc # "idle" => response = NoResponse /\ ENABLED Progress
    /\ pc = "idle" /\ nreq > 0 =>
        /\ ResponseKind(response) \in
              {"validation", "success", "exhaustion", "internal"}
        /\ reqClass = "malformed" => ResponseKind(response) = "internal"
        /\ reqClass = "nonstring" =>
              ResponseKind(response) \in {"internal", "validation"}
        /\ reqClass \in {"malformed", "nonstring"} => calls = << >>
        /\ reqClass = "ok" =>
              ResponseKind(response) \in {"success", "exhaustion", "internal"}

\* C11: every request ends with exactly one response, which is a validation
\* failure, a success, the exhaustion failure or the internal error; an
\* exception raised while the handler runs (a body that is not JSON, a URL
\* that is not a string) becomes the internal error response; a response once
\* sent is replaced only by the next request; the handler is again and again
\* idle, that is, no request stays in progress forever.
C11_OneResponse ==
    /\ []C11_Answer
    /\ [][response # NoResponse /\ response' # response => nreq' = nreq + 1]_vars
    /\ []<>(pc = "idle")

C11_Witness ==
    /\ pc = "idle"
    /\ reqClass = "nonstring"
    /\ response = InternalError

\* C12: a file left in the directory by a strategy call that returned no
\* result never becomes the file of a later success: a success names a file
\* that a successful call wrote.
C12_NoLeak ==
    ReturnedSuccess => lastRet.out.value.filepath \notin leftover

\* the chunks 1..n in the order of arrival
Chunks(n) == [k \in 1..n |-> Chunk(k)]

\* C13: two requests for the same identifier run one after the other from
\* validation to response (the handler has no await after reading the body),
\* and the later download by strategy (b) or (c) wins: whatever
\* {identifier}.mp4 held before, after a success it holds the chunks of that
\* download alone, complete and in order, and the file_size of the response
\* is the size of that download.
C13_LastWriteWins ==
    /\ ReturnedSuccess /\ lastRet.method \in {"Direct API", "HTML Scraping"}
          => /\ lastRet.wrote = {Path(lastRet.shortcode, "mp4")}
             /\ files[Path(lastRet.shortcode, "mp4")] = Chunks(lastRet.received)
    /\ Answered /\ ReturnedSuccess /\ response # InternalError
          /\ lastRet.method \in {"Direct API", "HTML Scraping"}
          => response.content.file_size = lastRet.received

\* the second request's strategy (b) wrote one chunk over the two chunks a
\* successful download of an earlier request had left under the same name
C13_Witness ==
    /\ Answered
    /\ nreq = 2
    /\ calls = <<"Enhanced yt-dlp", "Direct API">>
    /\ ReturnedSuccess
    /\ lastRet.over = [data |-> Chunks(2), left |-> FALSE]
    /\ lastRet.received = 1
    /\ response.content.file_size = 1

\* C14: when a strategy (b) or (c) call has streamed a download to its file,
\* the file holds the chunks it received, each once and in the order of
\* arrival, so its size is the sum of their sizes (a chunk counts as one
\* unit), for no chunk, one chunk and several chunks, whether or not the
\* call then returns success.
C14_StreamedFile ==
    lastRet # NoReturn /\ lastRet.wrote # {}
        /\ lastRet.method \in {"Direct API", "HTML Scraping"}
    => LET f == files[Path(lastRet.shortcode, "mp4")]
       IN  /\ Len(f) = lastRet.received
           /\ \A k \in 1..lastRet.received : f[k] = Chunk(k)

\* strategy (c) streamed several chunks
C14_Witness ==
    /\ lastRet # NoReturn
    /\ lastRet.method = "HTML Scraping"
    /\ lastRet.received >= 2
    /\ lastRet.wrote = {Path(shortcode, "mp4")}
    /\ Len(files[Path(shortcode, "mp4")]) = lastRet.received

\* C15: for a URL whose path has a p, reel, tv or reels segment followed by
\* an identifier, with or without a username segment before it,
\* extract_instagram_shortcode returns that identifier, and for a URL
\* without such a segment it returns none.
C15_ExactIdentifier ==
    \A p \in UrlParts :
        url = BuildUrl(p) =>
            shortcode = IF p.kw \in PostKeywords THEN p.id ELSE NoMatch

\* C16: strategy (b) returns no result for a reason local to an endpoint (a
\* non-200 answer, a JSON parse failure, a payload of the wrong shape, no
\* video URL) only at the last endpoint of api_urls: a first endpoint that
\* fails so is followed by the second.
C16_SecondEndpointTried ==
    lastRet # NoReturn /\ lastRet.method = "Direct API"
        /\ lastRet.out = Returned(None)
        /\ lastRet.faults # {}
        /\ lastRet.faults \subseteq {"non200", "json", "shape"}
    => lastRet.pos = Len(api_urls) - 1

\* C17: strategy (c) returns no result because of a block that does not
\* parse or has not the expected shape only at the last block of the page:
\* such a block is skipped and the scan goes on with the next one.
C17_ScanContinues ==
    lastRet # NoReturn /\ lastRet.method = "HTML Scraping"
        /\ lastRet.out = Returned(None)
        /\ lastRet.faults # {}
        /\ lastRet.faults \subseteq {"json", "shape"}
    => lastRet.pos = lastRet.nblocks

====
